---- MODULE Spec2Model ----
(***************************************************************************)
(* Sensor Analytics (hoonygit/comparetemp): the App component's state, its *)
(* CSV ingestion (handleFileUpload), clearData, the filter controls and    *)
(* the memoised aggregation filteredAndAggregatedData.                     *)
(*                                                                         *)
(* Conventions of the model                                                *)
(*   - text is a TLA+ string, read character by character with SubSeq;     *)
(*   - a JavaScript Date is a record [nan, time]: nan marks Invalid Date,  *)
(*     time is the instant in minutes since 1970-01-01T00:00Z;             *)
(*   - a JavaScript number read by parseFloat is a record [nan, v], v in   *)
(*     thousandths; averages shown by toFixed(2) are in hundredths;        *)
(*   - tz is the browser's offset from UTC in minutes (no DST);            *)
(*   - parsedFrom records results.data of the upload that set data: the    *)
(*     raw rows the current readings were made from.                       *)
(***************************************************************************)
EXTENDS Integers, Sequences, FiniteSets, TLC

VARIABLES data, parsedFrom, startDate, endDate, selectedLocations,
          isUploading, alertShown, parsing, tz

vars == <<data, parsedFrom, startDate, endDate, selectedLocations,
          isUploading, alertShown, parsing, tz>>

(***************************************************************************)
(* Bounds of the model.                                                    *)
(***************************************************************************)
\* rows of one uploaded CSV file
MaxRows == 2
\* Papa.parse calls that may be in flight at once
MaxParsing == 1

(***************************************************************************)
(* Text helpers.                                                           *)
(***************************************************************************)
CharAt(s, i) == IF i >= 1 /\ i <= Len(s) THEN SubSeq(s, i, i) ELSE ""

Digits == {"0", "1", "2", "3", "4", "5", "6", "7", "8", "9"}

IsDigit(c) == c \in Digits

DigitVal(c) ==
  CASE c = "0" -> 0 [] c = "1" -> 1 [] c = "2" -> 2 [] c = "3" -> 3
    [] c = "4" -> 4 [] c = "5" -> 5 [] c = "6" -> 6 [] c = "7" -> 7
    [] c = "8" -> 8 [] c = "9" -> 9

DigitChar(n) ==
  CASE n = 0 -> "0" [] n = 1 -> "1" [] n = 2 -> "2" [] n = 3 -> "3"
    [] n = 4 -> "4" [] n = 5 -> "5" [] n = 6 -> "6" [] n = 7 -> "7"
    [] n = 8 -> "8" [] n = 9 -> "9"

\* number of consecutive digits of s from position i on
RECURSIVE DigitRun(_, _)
DigitRun(s, i) == IF IsDigit(CharAt(s, i)) THEN 1 + DigitRun(s, i + 1) ELSE 0

\* value of the digits s[i..j] (0 for an empty range)
RECURSIVE NumOf(_, _, _)
NumOf(s, i, j) ==
  IF j < i THEN 0 ELSE 10 * NumOf(s, i, j - 1) + DigitVal(CharAt(s, j))

AllDigits(s, i, j) == \A k \in i..j : IsDigit(CharAt(s, k))

\* n written with at least w digits, zero-padded on the left
RECURSIVE Pad(_, _)
Pad(n, w) ==
  IF w <= 1 /\ n < 10 THEN DigitChar(n)
  ELSE Pad(n \div 10, w - 1) \o DigitChar(n % 10)

Abs(n) == IF n < 0 THEN -n ELSE n

(***************************************************************************)
(* The calendar behind JavaScript's Date (proleptic Gregorian).            *)
(***************************************************************************)
MinutesPerDay == 24 * 60

IsLeapYear(y) == (y % 4 = 0 /\ y % 100 # 0) \/ y % 400 = 0

DaysInMonth(y, m) ==
  CASE m \in {1, 3, 5, 7, 8, 10, 12} -> 31
    [] m \in {4, 6, 9, 11} -> 30
    [] OTHER -> IF IsLeapYear(y) THEN 29 ELSE 28

\* days from 1970-01-01 to the civil date y-m-d
DaysFromCivil(y, m, d) ==
  LET yy  == IF m <= 2 THEN y - 1 ELSE y
      era == yy \div 400
      yoe == yy - era * 400
      mp  == IF m > 2 THEN m - 3 ELSE m + 9
      doy == (153 * mp + 2) \div 5 + d - 1
      doe == yoe * 365 + yoe \div 4 - yoe \div 100 + doy
  IN  era * 146097 + doe - 719468

\* the civil date of the day z days after 1970-01-01
CivilFromDays(z) ==
  LET zz  == z + 719468
      era == zz \div 146097
      doe == zz - era * 146097
      yoe == (doe - doe \div 1460 + doe \div 36524 - doe \div 146096) \div 365
      doy == doe - (365 * yoe + yoe \div 4 - yoe \div 100)
      mp  == (5 * doy + 2) \div 153
      d   == doy - (153 * mp + 2) \div 5 + 1
      m   == IF mp < 10 THEN mp + 3 ELSE mp - 9
  IN  [y |-> yoe + era * 400 + (IF m <= 2 THEN 1 ELSE 0), m |-> m, d |-> d]

(***************************************************************************)
(* Date values.                                                            *)
(***************************************************************************)
InvalidDate == [nan |-> TRUE, time |-> 0]

DateOf(t) == [nan |-> FALSE, time |-> t]

\* date-fns isValid: the Date is not Invalid Date
isValid(date) == ~date.nan

\* local calendar fields of an instant, as getFullYear() ... getMinutes() give them
LocalDay(t, zone) == (t + zone) \div MinutesPerDay

LocalMinuteOfDay(t, zone) == (t + zone) % MinutesPerDay

\* getDay(): 0 is Sunday; 1970-01-01 was a Thursday
LocalWeekday(t, zone) == (LocalDay(t, zone) + 4) % 7

(***************************************************************************)
(* new Date(text).  The texts of the model are '' (a missing field), the   *)
(* date-only form YYYY-MM-DD (read as UTC, as ECMAScript requires) and the *)
(* date-time form YYYY-MM-DD HH:mm or YYYY-MM-DDTHH:mm (read as local      *)
(* time); anything else is Invalid Date.  A day of the month beyond the    *)
(* month's length but at most 31 is engine-dependent: ECMAScript asks for  *)
(* NaN, V8 rolls the date over into the next month.  rollover says which.  *)
(***************************************************************************)
DateFieldsOk(y, m, d, rollover) ==
  /\ m >= 1 /\ m <= 12
  /\ d >= 1
  /\ d <= (IF rollover THEN 31 ELSE DaysInMonth(y, m))

DateShapeOk(s) ==
  /\ AllDigits(s, 1, 4) /\ CharAt(s, 5) = "-"
  /\ AllDigits(s, 6, 7) /\ CharAt(s, 8) = "-"
  /\ AllDigits(s, 9, 10)

TimeShapeOk(s) ==
  /\ CharAt(s, 11) \in {" ", "T"}
  /\ AllDigits(s, 12, 13) /\ CharAt(s, 14) = ":"
  /\ AllDigits(s, 15, 16)

newDate(s, zone, rollover) ==
  LET y  == NumOf(s, 1, 4)
      m  == NumOf(s, 6, 7)
      d  == NumOf(s, 9, 10)
      h  == NumOf(s, 12, 13)
      mi == NumOf(s, 15, 16)
      \* MakeDay: the first of the month plus d - 1 days
      day == DaysFromCivil(y, m, 1) + d - 1
  IN  IF Len(s) = 10 /\ DateShapeOk(s) /\ DateFieldsOk(y, m, d, rollover)
        THEN DateOf(day * MinutesPerDay)
      ELSE IF Len(s) = 16 /\ DateShapeOk(s) /\ TimeShapeOk(s)
              /\ DateFieldsOk(y, m, d, rollover) /\ h <= 23 /\ mi <= 59
        THEN DateOf(day * MinutesPerDay + h * 60 + mi - zone)
      ELSE InvalidDate

(***************************************************************************)
(* date-fns: format (local time), startOfHour, startOfDay, startOfWeek,    *)
(* differenceInDays.                                                       *)
(***************************************************************************)
\* format(date, 'yyyy-MM-dd')
formatDay(t, zone) ==
  LET c == CivilFromDays(LocalDay(t, zone))
  IN  Pad(c.y, 4) \o "-" \o Pad(c.m, 2) \o "-" \o Pad(c.d, 2)

\* format(date, 'yyyy-MM-dd HH:00')
formatHour(t, zone) ==
  formatDay(t, zone) \o " " \o Pad(LocalMinuteOfDay(t, zone) \div 60, 2) \o ":00"

\* format(date, 'MM/dd')
formatMonthDay(t, zone) ==
  LET c == CivilFromDays(LocalDay(t, zone))
  IN  Pad(c.m, 2) \o "/" \o Pad(c.d, 2)

\* format(date, 'MM/dd HH:mm')
formatMonthDayTime(t, zone) ==
  formatMonthDay(t, zone) \o " "
    \o Pad(LocalMinuteOfDay(t, zone) \div 60, 2) \o ":"
    \o Pad(LocalMinuteOfDay(t, zone) % 60, 2)

startOfHour(t, zone) == t - ((t + zone) % 60)

startOfDay(t, zone) == t - LocalMinuteOfDay(t, zone)

\* startOfWeek is called without options: the week starts on Sunday
weekStartsOn == 0

startOfWeek(t, zone) ==
  LET day  == LocalWeekday(t, zone)
      diff == (IF day < weekStartsOn THEN 7 ELSE 0) + day - weekStartsOn
  IN  startOfDay(t, zone) - diff * MinutesPerDay

\* compareLocalAsc of date-fns: the sign of left - right
CompareAsc(left, right) ==
  IF left < right THEN -1 ELSE IF left > right THEN 1 ELSE 0

\* differenceInDays(left, right): full days between the instants, towards 0
differenceInDays(left, right, zone) ==
  LET sign       == CompareAsc(left, right)
      difference == Abs(LocalDay(left, zone) - LocalDay(right, zone))
      moved      == left - sign * difference * MinutesPerDay
      notFull    == IF CompareAsc(moved, right) = -sign THEN 1 ELSE 0
  IN  sign * (difference - notFull)

(***************************************************************************)
(* parseFloat(text): leading blanks, an optional sign, then the longest    *)
(* prefix digits[.digits] or .digits; NaN when there is none.  The value   *)
(* is kept in thousandths; the texts of the model carry no exponent and at *)
(* most three decimals.                                                    *)
(***************************************************************************)
NaN == [nan |-> TRUE, v |-> 0]

RECURSIVE BlankRun(_, _)
BlankRun(s, i) == IF CharAt(s, i) = " " THEN 1 + BlankRun(s, i + 1) ELSE 0

\* the k-th decimal of the fraction that starts at position i, 0 when absent
Decimal(s, i, k, len) == IF k <= len THEN DigitVal(CharAt(s, i + k - 1)) ELSE 0

parseFloat(s) ==
  LET p    == 1 + BlankRun(s, 1)
      neg  == CharAt(s, p) = "-"
      q    == IF CharAt(s, p) \in {"+", "-"} THEN p + 1 ELSE p
      n    == DigitRun(s, q)
      f    == IF CharAt(s, q + n) = "." THEN DigitRun(s, q + n + 1) ELSE 0
      frac == 100 * Decimal(s, q + n + 1, 1, f) + 10 * Decimal(s, q + n + 1, 2, f)
                + Decimal(s, q + n + 1, 3, f)
      mag  == 1000 * NumOf(s, q, q + n - 1) + frac
  IN  IF n = 0 /\ f = 0 THEN NaN
      ELSE [nan |-> FALSE, v |-> IF neg THEN -mag ELSE mag]

\* parseFloat(text) || 0: NaN and 0 are falsy
NumberOrZero(num) == IF num.nan \/ num.v = 0 THEN 0 ELSE num.v

\* text || fallback: the empty (or missing) text is falsy
TextOr(s, fallback) == IF s = "" THEN fallback ELSE s

(***************************************************************************)
(* handleFileUpload, the complete callback: one parsed row to SensorData.  *)
(* A raw row (RawSensorData) is a record of seven texts; a column missing  *)
(* from the CSV is the empty text.                                         *)
(***************************************************************************)
toSensorData(row, zone, rollover) ==
  [serialNumber |-> TextOr(row.serial, "N/A"),
   location     |-> TextOr(row.location, "Unknown"),
   battery      |-> NumberOrZero(parseFloat(row.battery)),
   timestamp    |-> newDate(row.timestamp, zone, rollover),
   moisture     |-> NumberOrZero(parseFloat(row.moisture)),
   ec           |-> NumberOrZero(parseFloat(row.ec)),
   temperature  |-> NumberOrZero(parseFloat(row.temperature))]

\* a filter that also wants a battery reading
rowKept_withBattery(d) == isValid(d.timestamp) /\ d.battery # 0

\* the row survives .filter(d => isValid(d.timestamp))
rowKept(d) == isValid(d.timestamp)

\* results.data.map(...).filter(...)
parseRows(rows, zone, rollover) ==
  SelectSeq([i \in 1..Len(rows) |-> toSensorData(rows[i], zone, rollover)], rowKept)

MinOf(S) == CHOOSE y \in S : \A z \in S : y <= z

MaxOf(S) == CHOOSE y \in S : \A z \in S : y >= z

\* Array.from(new Set(rows.map(d => d.location)))
locationsOf(rows) == {rows[i].location : i \in 1..Len(rows)}

(***************************************************************************)
(* filteredAndAggregatedData (useMemo): a function of data, startDate,     *)
(* endDate and selectedLocations.                                          *)
(*                                                                         *)
(* isWithinInterval depends on the date-fns release the build installs:    *)
(* up to 2.x it throws RangeError('Invalid interval') when start is after  *)
(* end, from 3.0 on it orders the two ends first.  DateFnsBuilds names the *)
(* two behaviours and every statement about the output is made for both.   *)
(***************************************************************************)
DateFnsBuilds == {"throws", "orders"}

\* the range the <input type="date"> values give: new Date('YYYY-MM-DD')
rangeStart(sd, zone) == newDate(sd, zone, FALSE).time

rangeEnd(ed, zone) == newDate(ed, zone, FALSE).time

\* differenceInDays(end, start)
daysDiff(sd, ed, zone) ==
  differenceInDays(rangeEnd(ed, zone), rangeStart(sd, zone), zone)

\* the boundaries taken inclusively: a span of 7 days already daily
aggregationMode_inclusive(diff) ==
  IF diff >= 31 THEN "weekly" ELSE IF diff >= 7 THEN "daily" ELSE "hourly"

aggregationMode(diff) ==
  IF diff > 31 THEN "weekly" ELSE IF diff > 7 THEN "daily" ELSE "hourly"

\* the mode filteredAndAggregatedData works in
usedMode(sd, ed, zone) == aggregationMode(daysDiff(sd, ed, zone))

\* the summary panel's own expression for the mode it names
summaryMode(sd, ed, zone) ==
  IF differenceInDays(rangeEnd(ed, zone), rangeStart(sd, zone), zone) > 31
    THEN "weekly"
  ELSE IF differenceInDays(rangeEnd(ed, zone), rangeStart(sd, zone), zone) > 7
    THEN "daily"
  ELSE "hourly"

intervalThrows(start, end, build) == build = "throws" /\ ~(start <= end)

isWithinInterval(t, start, end) ==
  LET lo == IF start <= end THEN start ELSE end
      hi == IF start <= end THEN end ELSE start
  IN  t >= lo /\ t <= hi

\* the filter without its "nothing selected means everything" case
keepReading_selectedOnly(d, start, end, sel) ==
  /\ isWithinInterval(d.timestamp.time, start, end)
  /\ d.location \in sel

\* the filter without its location part
keepReading_anyLocation(d, start, end, sel) ==
  isWithinInterval(d.timestamp.time, start, end)

\* the predicate of data.filter(...)
keepReading(d, start, end, sel) ==
  /\ isWithinInterval(d.timestamp.time, start, end)
  /\ (Cardinality(sel) = 0 \/ d.location \in sel)

dateFiltered(d, start, end, sel) ==
  SelectSeq(d, LAMBDA r : keepReading(r, start, end, sel))

timeKey(t, mode, zone) ==
  IF mode = "weekly" THEN formatDay(startOfWeek(t, zone), zone)
  ELSE IF mode = "daily" THEN formatDay(startOfDay(t, zone), zone)
  ELSE formatHour(startOfHour(t, zone), zone)

\* timeLocationGroups: the keys in insertion order and, per key and location,
\* the running sums and the count
NoGroups == [order |-> <<>>, byKey |-> <<>>]

NewStats == [moisture |-> 0, ec |-> 0, temperature |-> 0, count |-> 0]

addToStats(st, r) ==
  [moisture    |-> st.moisture + r.moisture,
   ec          |-> st.ec + r.ec,
   temperature |-> st.temperature + r.temperature,
   count       |-> st.count + 1]

\* a new bucket for every reading, also when its key is already there
addReading_alwaysNewBucket(g, r, key) ==
  LET locs  == IF key \in DOMAIN g.byKey THEN g.byKey[key] ELSE <<>>
      stats == IF r.location \in DOMAIN locs THEN locs[r.location] ELSE NewStats
      locs2 == (r.location :> addToStats(stats, r)) @@ locs
  IN  [order |-> Append(g.order, key), byKey |-> (key :> locs2) @@ g.byKey]

addReading(g, r, key) ==
  LET locs  == IF key \in DOMAIN g.byKey THEN g.byKey[key] ELSE <<>>
      stats == IF r.location \in DOMAIN locs THEN locs[r.location] ELSE NewStats
      locs2 == (r.location :> addToStats(stats, r)) @@ locs
  IN  [order |-> IF key \in DOMAIN g.byKey THEN g.order ELSE Append(g.order, key),
       byKey |-> (key :> locs2) @@ g.byKey]

RECURSIVE groupReadings(_, _, _, _)
groupReadings(rs, n, mode, zone) ==
  IF n = 0 THEN NoGroups
  ELSE addReading(groupReadings(rs, n - 1, mode, zone), rs[n],
                  timeKey(rs[n].timestamp.time, mode, zone))

\* the average cut to two decimals instead of rounded
toFixed2_truncated(sum, count) ==
  LET q == (Abs(sum)) \div (10 * count)
  IN  IF sum < 0 THEN -q ELSE q

\* Number((sum / count).toFixed(2)), in hundredths; sum is in thousandths
toFixed2(sum, count) ==
  LET q == (2 * Abs(sum) + 10 * count) \div (20 * count)
  IN  IF sum < 0 THEN -q ELSE q

displayDate(key, mode, zone) ==
  IF mode = "weekly"
    THEN formatMonthDay(newDate(key, zone, FALSE).time, zone) \o " (Week)"
  ELSE IF mode = "daily"
    THEN formatMonthDay(newDate(key, zone, FALSE).time, zone)
  ELSE formatMonthDayTime(newDate(key, zone, FALSE).time, zone)

Metrics == {"moisture", "ec", "temperature"}

column(loc, metric) == loc \o "_" \o metric

\* the `${loc}_${metric}` entries of one bucket
bucketValues(locs) ==
  [c \in {column(loc, m) : loc \in DOMAIN locs, m \in Metrics} |->
     LET loc == CHOOSE l \in DOMAIN locs : \E m \in Metrics : c = column(l, m)
         m   == CHOOSE mm \in Metrics : c = column(loc, mm)
     IN  toFixed2(locs[loc][m], locs[loc].count)]

flatten(g, mode, zone) ==
  [i \in 1..Len(g.order) |->
     [date        |-> g.order[i],
      displayDate |-> displayDate(g.order[i], mode, zone),
      values      |-> bucketValues(g.byKey[g.order[i]])]]

\* a.localeCompare(b) on bucket keys: character by character, a shorter text
\* before its extensions; blanks and punctuation sort before digits
CharRank(c) ==
  CASE c = " " -> 1 [] c = "-" -> 2 [] c = "/" -> 3 [] c = ":" -> 4
    [] IsDigit(c) -> 10 + DigitVal(c)
    [] OTHER -> 30

RECURSIVE compareFrom(_, _, _)
compareFrom(a, b, i) ==
  IF i > Len(a) /\ i > Len(b) THEN 0
  ELSE IF i > Len(a) THEN -1
  ELSE IF i > Len(b) THEN 1
  ELSE IF CharRank(CharAt(a, i)) < CharRank(CharAt(b, i)) THEN -1
  ELSE IF CharRank(CharAt(a, i)) > CharRank(CharAt(b, i)) THEN 1
  ELSE compareFrom(a, b, i + 1)

localeCompare(a, b) == compareFrom(a, b, 1)

\* Array.prototype.sort((a, b) => a.date.localeCompare(b.date)): stable
RECURSIVE insertSorted(_, _)
insertSorted(sorted, x) ==
  IF sorted = <<>> THEN <<x>>
  ELSE IF localeCompare(sorted[Len(sorted)].date, x.date) <= 0
    THEN Append(sorted, x)
  ELSE Append(insertSorted(SubSeq(sorted, 1, Len(sorted) - 1), x),
              sorted[Len(sorted)])

\* the buckets left in insertion order
sortByDate_unsorted(bs, n) == bs

RECURSIVE sortByDate(_, _)
sortByDate(bs, n) ==
  IF n = 0 THEN <<>> ELSE insertSorted(sortByDate(bs, n - 1), bs[n])

filteredAndAggregatedData(d, sd, ed, sel, zone, build) ==
  IF Len(d) = 0 \/ sd = "" \/ ed = "" THEN [threw |-> FALSE, rows |-> <<>>]
  ELSE
    LET start == rangeStart(sd, zone)
        end   == rangeEnd(ed, zone)
        mode  == usedMode(sd, ed, zone)
        kept  == dateFiltered(d, start, end, sel)
        flat  == flatten(groupReadings(kept, Len(kept), mode, zone), mode, zone)
    IN  IF intervalThrows(start, end, build)
          THEN [threw |-> TRUE, rows |-> <<>>]
        ELSE [threw |-> FALSE, rows |-> sortByDate(flat, Len(flat))]

\* const locations = useMemo(...)
locations == locationsOf(data)

\* what the component renders from its current state
aggregated(build) ==
  filteredAndAggregatedData(data, startDate, endDate, selectedLocations, tz, build)

(***************************************************************************)
(* Inputs of the model: the rows a CSV file may hold, the dates typed into *)
(* the two date inputs, the browser's time zone.                           *)
(***************************************************************************)
Row(serial, location, battery, timestamp, moisture, ec, temperature) ==
  [serial |-> serial, location |-> location, battery |-> battery,
   timestamp |-> timestamp, moisture |-> moisture, ec |-> ec,
   temperature |-> temperature]

RawRows ==
  { Row("S1", "A", "90",  "2024-01-01 10:30", "10",    "1.5",   "20"),
    Row("S1", "A", "88",  "2024-01-01 11:15", "20",    "1.515", "-3.2"),
    Row("S2", "B", "n/a", "2024-01-01T10:00", "12abc", "",      "warm"),
    Row("",   "",  "60",  "2024-02-30 08:00", "40",    "2",     "21"),
    Row("S2", "B", "61",  "not a date",       "50",    "3",     "22") }

RECURSIVE SeqsUpTo(_, _)
SeqsUpTo(S, n) ==
  IF n = 0 THEN {<<>>}
  ELSE LET shorter == SeqsUpTo(S, n - 1)
       IN  shorter \cup {Append(q, x) : q \in {r \in shorter : Len(r) = n - 1}, x \in S}

\* results.data of one parsed file
Files == SeqsUpTo(RawRows, MaxRows)

\* values of the date inputs; '' is the cleared input
StartChoices == {"", "2024-01-01", "2024-01-09"}

EndChoices == {"", "2024-01-08", "2024-01-09", "2024-02-01", "2024-02-02"}

\* offsets from UTC in minutes: Asia/Seoul, where the application is used
TimeZones == {9 * 60}

Alerts == {"none", "tooLarge", "noValidData", "processingError", "parseError"}

(***************************************************************************)
(* The state machine.                                                      *)
(***************************************************************************)
Init ==
  /\ data = <<>>
  /\ parsedFrom = <<>>
  /\ startDate = ""
  /\ endDate = ""
  /\ selectedLocations = {}
  /\ isUploading = FALSE
  /\ alertShown = "none"
  /\ parsing = 0
  /\ tz \in TimeZones

\* handleFileUpload with a file over 10 MB: the alert, and nothing else
uploadTooLarge ==
  /\ alertShown' = "tooLarge"
  /\ UNCHANGED <<data, parsedFrom, startDate, endDate, selectedLocations,
                 isUploading, parsing, tz>>

\* handleFileUpload with a file of at most 10 MB: Papa.parse is started
uploadStart ==
  /\ parsing < MaxParsing
  /\ isUploading' = TRUE
  /\ parsing' = parsing + 1
  /\ alertShown' = "none"
  /\ UNCHANGED <<data, parsedFrom, startDate, endDate, selectedLocations, tz>>

\* parseRows of every file of the model, per time zone and engine, computed
\* once
ParsedFiles ==
  [f \in Files, z \in TimeZones, ro \in BOOLEAN |-> parseRows(f, z, ro)] @@ <<>>

\* a complete callback that treats a file without valid rows as a dataset:
\* the empty dataset replaces the previous one
parseComplete_emptyReplaces(rows, rollover, spreadThrows) ==
  LET parsedData == ParsedFiles[rows, tz, rollover]
      dates      == {parsedData[i].timestamp.time : i \in 1..Len(parsedData)}
  IN  /\ parsing > 0
      /\ parsing' = parsing - 1
      /\ isUploading' = FALSE
      /\ tz' = tz
      /\ IF Len(parsedData) = 0
           THEN /\ alertShown' = "noValidData"
                /\ data' = <<>>
                /\ parsedFrom' = <<>>
                /\ startDate' = ""
                /\ endDate' = ""
                /\ selectedLocations' = {}
         ELSE IF spreadThrows
           THEN /\ data' = parsedData
                /\ parsedFrom' = rows
                /\ alertShown' = "processingError"
                /\ UNCHANGED <<startDate, endDate, selectedLocations>>
         ELSE /\ data' = parsedData
              /\ parsedFrom' = rows
              /\ startDate' = formatDay(MinOf(dates), tz)
              /\ endDate' = formatDay(MaxOf(dates), tz)
              /\ selectedLocations' = locationsOf(parsedData)
              /\ alertShown' = "none"

\* Papa.parse's complete callback.  rows is results.data; rollover is the
\* engine's reading of a day beyond the month's end; spreadThrows says that
\* the file has more rows than the engine accepts as arguments of Math.min.
parseComplete(rows, rollover, spreadThrows) ==
  LET parsedData == ParsedFiles[rows, tz, rollover]
      dates      == {parsedData[i].timestamp.time : i \in 1..Len(parsedData)}
  IN  /\ parsing > 0
      /\ parsing' = parsing - 1
      /\ isUploading' = FALSE
      /\ tz' = tz
      /\ IF Len(parsedData) = 0
           THEN /\ alertShown' = "noValidData"
                /\ UNCHANGED <<data, parsedFrom, startDate, endDate,
                               selectedLocations>>
         ELSE IF spreadThrows
           THEN /\ data' = parsedData
                /\ parsedFrom' = rows
                /\ alertShown' = "processingError"
                /\ UNCHANGED <<startDate, endDate, selectedLocations>>
         ELSE /\ data' = parsedData
              /\ parsedFrom' = rows
              /\ startDate' = formatDay(MinOf(dates), tz)
              /\ endDate' = formatDay(MaxOf(dates), tz)
              /\ selectedLocations' = locationsOf(parsedData)
              /\ alertShown' = "none"

\* Papa.parse's error callback
parseError ==
  /\ parsing > 0
  /\ parsing' = parsing - 1
  /\ isUploading' = FALSE
  /\ alertShown' = "parseError"
  /\ UNCHANGED <<data, parsedFrom, startDate, endDate, selectedLocations, tz>>

\* the reset button, shown while data is not empty
clearData(confirmed) ==
  /\ Len(data) > 0
  /\ alertShown' = "none"
  /\ IF confirmed
       THEN /\ data' = <<>>
            /\ parsedFrom' = <<>>
            /\ startDate' = ""
            /\ endDate' = ""
            /\ selectedLocations' = {}
     ELSE UNCHANGED <<data, parsedFrom, startDate, endDate, selectedLocations>>
  /\ UNCHANGED <<isUploading, parsing, tz>>

\* the date inputs, shown while data is not empty
setStartDate(value) ==
  /\ Len(data) > 0
  /\ startDate' = value
  /\ alertShown' = "none"
  /\ UNCHANGED <<data, parsedFrom, endDate, selectedLocations, isUploading,
                 parsing, tz>>

setEndDate(value) ==
  /\ Len(data) > 0
  /\ endDate' = value
  /\ alertShown' = "none"
  /\ UNCHANGED <<data, parsedFrom, startDate, selectedLocations, isUploading,
                 parsing, tz>>

\* one button per location of the data
toggleLocation(loc) ==
  /\ Len(data) > 0
  /\ selectedLocations' =
       IF loc \in selectedLocations THEN selectedLocations \ {loc}
       ELSE selectedLocations \cup {loc}
  /\ alertShown' = "none"
  /\ UNCHANGED <<data, parsedFrom, startDate, endDate, isUploading, parsing, tz>>

toggleAllLocations ==
  /\ Len(data) > 0
  /\ selectedLocations' =
       IF Cardinality(selectedLocations) = Cardinality(locations) THEN {}
       ELSE locations
  /\ alertShown' = "none"
  /\ UNCHANGED <<data, parsedFrom, startDate, endDate, isUploading, parsing, tz>>

Next ==
  \/ uploadTooLarge
  \/ uploadStart
  \/ \E rows \in Files, rollover \in BOOLEAN, spreadThrows \in BOOLEAN :
       parseComplete(rows, rollover, spreadThrows)
  \/ parseError
  \/ \E confirmed \in BOOLEAN : clearData(confirmed)
  \/ \E value \in StartChoices : setStartDate(value)
  \/ \E value \in EndChoices : setEndDate(value)
  \/ \E loc \in locations : toggleLocation(loc)
  \/ toggleAllLocations

Spec == Init /\ [][Next]_vars

(***************************************************************************)
(* Vocabulary of the claims.                                               *)
(***************************************************************************)
\* the component aggregates: there is data and both dates are set
Aggregating == Len(data) > 0 /\ startDate # "" /\ endDate # ""

\* the calendar day a date input's value names, in days since 1970-01-01
CalendarDay(s) == DaysFromCivil(NumOf(s, 1, 4), NumOf(s, 6, 7), NumOf(s, 9, 10))

\* whole days from startDate to endDate
DaySpan == CalendarDay(endDate) - CalendarDay(startDate)

\* the readings the aggregation keeps in the current state
keptNow ==
  dateFiltered(data, rangeStart(startDate, tz), rangeEnd(endDate, tz),
               selectedLocations)

\* the bucket key the aggregation gives a reading in the current state
keyNow(r) == timeKey(r.timestamp.time, usedMode(startDate, endDate, tz), tz)

bucketDates(out) == {out.rows[i].date : i \in 1..Len(out.rows)}

\* no reading of the data owes its date to the engine's rolling a day such
\* as February 30 over into the next month
NoRolledOverDate == data = parseRows(parsedFrom, tz, FALSE)

PassesFilter(r) == selectedLocations = {} \/ r.location \in selectedLocations

(***************************************************************************)
(* C1.  The aggregation keeps a reading if and only if its timestamp falls *)
(* on a calendar date of the closed interval [startDate, endDate], any     *)
(* time of day on endDate included, and the location filter is empty or    *)
(* contains its location: with startDate not after endDate, the buckets of *)
(* the output are exactly the buckets of those readings.                   *)
(***************************************************************************)
C1_OnADateOfTheRange(r) ==
  /\ LocalDay(r.timestamp.time, tz) >= CalendarDay(startDate)
  /\ LocalDay(r.timestamp.time, tz) <= CalendarDay(endDate)

\* C1: the output's buckets are those of the readings dated within
\* [startDate, endDate] (whole days) that pass the location filter
C1_KeepsTheReadingsOfTheDateRange ==
  (Aggregating /\ DaySpan >= 0 /\ NoRolledOverDate) =>
    \A build \in DateFnsBuilds :
      /\ ~aggregated(build).threw
      /\ bucketDates(aggregated(build)) =
           {keyNow(data[i]) : i \in {j \in 1..Len(data) :
               C1_OnADateOfTheRange(data[j]) /\ PassesFilter(data[j])}}

(***************************************************************************)
(* C2.  With a non-empty reading set and any location filter, a startDate  *)
(* after endDate gives an empty output and no error.  The statement is     *)
(* made for the more favourable of the two date-fns behaviours, so that it *)
(* fails only where it fails whichever release is installed.               *)
(***************************************************************************)
C2_InvertedRangeGivesNothing ==
  (Aggregating /\ DaySpan < 0 /\ NoRolledOverDate) =>
    \E build \in DateFnsBuilds :
      aggregated(build) = [threw |-> FALSE, rows |-> <<>>]

(***************************************************************************)
(* C3.  In weekly mode (day span > 31) every kept reading is placed in the *)
(* bucket whose key is the YYYY-MM-DD date of the Monday (the ISO start of *)
(* week) of the week that contains the reading's timestamp.                *)
(***************************************************************************)
IsoWeekStart(t, zone) ==
  startOfDay(t, zone) - ((LocalWeekday(t, zone) + 6) % 7) * MinutesPerDay

\* C3: in weekly mode each kept reading is in the bucket keyed by the Monday
\* of its week
C3_WeeklyBucketsStartOnMonday ==
  (Aggregating /\ DaySpan > 31 /\ NoRolledOverDate) =>
    \A build \in DateFnsBuilds :
      \A i \in 1..Len(keptNow) :
        \E b \in 1..Len(aggregated(build).rows) :
          LET bucket == aggregated(build).rows[b]
          IN  /\ bucket.date =
                   formatDay(IsoWeekStart(keptNow[i].timestamp.time, tz), tz)
              /\ column(keptNow[i].location, "moisture") \in DOMAIN bucket.values

(***************************************************************************)
(* C4.  The granularity follows the whole-day span D = endDate - startDate *)
(* with strict boundaries: D <= 7 hourly, 7 < D <= 31 daily, D > 31 weekly *)
(* (so 7 is hourly, 8 and 31 are daily, 32 is weekly); the summary panel   *)
(* names the mode the aggregation used, and every bucket key of the output *)
(* is a key of that mode.                                                  *)
(***************************************************************************)
C4_ModeOfSpan(d) ==
  IF d <= 7 THEN "hourly" ELSE IF d <= 31 THEN "daily" ELSE "weekly"

RECURSIVE C5_Sum(_, _, _)
C5_Sum(rs, I, metric) ==
  IF I = {} THEN 0
  ELSE LET i == CHOOSE j \in I : TRUE
       IN  rs[i][metric] + C5_Sum(rs, I \ {i}, metric)

C5_Group(key, loc) ==
  {i \in 1..Len(keptNow) : keyNow(keptNow[i]) = key /\ keptNow[i].location = loc}

C5_IsRoundedMean(v, sum, n) == n > 0 /\ 2 * Abs(10 * n * v - sum) <= 10 * n

\* C5: every location_metric value is the 2-decimal rounded mean of its
\* (bucket key, location) group of kept readings
C5_ValuesAreRoundedMeans ==
  Aggregating =>
    \A build \in DateFnsBuilds :
      LET out == aggregated(build)
      IN  \A b \in 1..Len(out.rows) : \A loc \in locations : \A m \in Metrics :
            column(loc, m) \in DOMAIN out.rows[b].values =>
              C5_IsRoundedMean(out.rows[b].values[column(loc, m)],
                               C5_Sum(keptNow, C5_Group(out.rows[b].date, loc), m),
                               Cardinality(C5_Group(out.rows[b].date, loc)))

\* two readings of A in one daily bucket: EC 1.5 and 1.515 average to 1.5075,
\* shown as 1.51
C5_Witness ==
  /\ Aggregating
  /\ \A build \in DateFnsBuilds :
       \E b \in 1..Len(aggregated(build).rows) :
         /\ Cardinality(C5_Group(aggregated(build).rows[b].date, "A")) = 2
         /\ aggregated(build).rows[b].values[column("A", "ec")] = 151

(***************************************************************************)
(* C6.  For every reading set and date range, the output with an empty     *)
(* location filter is identical to the output with a filter that holds     *)
(* every distinct location of the reading set.                             *)
(***************************************************************************)
C6_EmptyFilterSelectsAll ==
  \A build \in DateFnsBuilds :
    LET none == filteredAndAggregatedData(data, startDate, endDate, {}, tz, build)
        all  == filteredAndAggregatedData(data, startDate, endDate, locations,
                                          tz, build)
    IN  /\ none = all
        /\ selectedLocations \in {{}, locations} => aggregated(build) = all

\* every location deselected, and readings of two locations aggregated
C6_Witness ==
  /\ Aggregating /\ selectedLocations = {} /\ Cardinality(locations) = 2
  /\ \A build \in DateFnsBuilds : Len(aggregated(build).rows) > 0

(***************************************************************************)
(* C7.  The output holds exactly one bucket per distinct bucket key among  *)
(* the kept readings; a bucket carries the three location_metric entries   *)
(* of exactly the locations with at least one kept reading in it, and no   *)
(* entry, zero-filled or otherwise, of any other location.                 *)
(***************************************************************************)
C7_LocationsOf(key) ==
  {keptNow[i].location : i \in {j \in 1..Len(keptNow) : keyNow(keptNow[j]) = key}}

\* C7: one bucket per key of the kept readings, with the entries of exactly
\* the locations that have a kept reading in it
C7_OneBucketPerKey ==
  Aggregating =>
    \A build \in DateFnsBuilds :
      LET out == aggregated(build)
      IN  ~out.threw =>
            /\ bucketDates(out) = {keyNow(keptNow[i]) : i \in 1..Len(keptNow)}
            /\ Len(out.rows) = Cardinality(bucketDates(out))
            /\ \A b \in 1..Len(out.rows) :
                 DOMAIN out.rows[b].values =
                   {column(loc, m) : loc \in C7_LocationsOf(out.rows[b].date),
                                     m \in Metrics}

\* readings of A and B in the same hour: one bucket with both
C7_Witness ==
  /\ Aggregating /\ DaySpan <= 7
  /\ \A build \in DateFnsBuilds :
       /\ Len(aggregated(build).rows) = 1
       /\ {column("A", "moisture"), column("B", "moisture")}
            \subseteq DOMAIN aggregated(build).rows[1].values

(***************************************************************************)
(* C8.  The output is ordered non-decreasingly by bucketKey under          *)
(* lexicographic string comparison, and this order is the chronological    *)
(* order of the buckets' anchor instants.                                  *)
(***************************************************************************)
\* the anchor of a bucket: the start of the hour, day or week of its readings
C8_Anchors(key) ==
  LET mode == usedMode(startDate, endDate, tz)
  IN  {IF mode = "weekly" THEN startOfWeek(keptNow[i].timestamp.time, tz)
       ELSE IF mode = "daily" THEN startOfDay(keptNow[i].timestamp.time, tz)
       ELSE startOfHour(keptNow[i].timestamp.time, tz) :
         i \in {j \in 1..Len(keptNow) : keyNow(keptNow[j]) = key}}

\* C8: the buckets are in non-decreasing key order, which is the order of
\* their anchor instants
C8_OrderedByKeyAndTime ==
  Aggregating =>
    \A build \in DateFnsBuilds :
      LET out == aggregated(build)
      IN  \A i \in 1..Len(out.rows) : \A j \in 1..Len(out.rows) :
            i < j =>
              /\ localeCompare(out.rows[i].date, out.rows[j].date) <= 0
              /\ \A a \in C8_Anchors(out.rows[i].date) :
                   \A c \in C8_Anchors(out.rows[j].date) : a < c

\* two buckets whose readings arrived latest first
C8_Witness ==
  /\ Aggregating /\ Len(data) = 2
  /\ data[1].timestamp.time > data[2].timestamp.time
  /\ \A build \in DateFnsBuilds : Len(aggregated(build).rows) = 2

(***************************************************************************)
(* C9.  After any sequence of uploads and clears every reading of the      *)
(* dataset has a valid timestamp, and a raw row whose timestamp field is   *)
(* unparseable or calendar-invalid never produces a reading: the dataset   *)
(* holds no more readings than its file has rows with a real date-time.    *)
(***************************************************************************)
\* YYYY-MM-DD HH:mm (or with T) naming a day and a minute that exist: the
\* civil date survives the round trip through its day number
C9_IsRealDateTime(s) ==
  /\ Len(s) = 16 /\ DateShapeOk(s) /\ TimeShapeOk(s)
  /\ LET y == NumOf(s, 1, 4)
         m == NumOf(s, 6, 7)
         d == NumOf(s, 9, 10)
     IN  /\ m \in 1..12
         /\ CivilFromDays(DaysFromCivil(y, m, d)) = [y |-> y, m |-> m, d |-> d]
  /\ NumOf(s, 12, 13) <= 23 /\ NumOf(s, 15, 16) <= 59

C9_RealRows == {i \in 1..Len(parsedFrom) : C9_IsRealDateTime(parsedFrom[i].timestamp)}

\* C9: every reading has a valid timestamp and none comes from a row whose
\* timestamp text is unparseable or names no real date
C9_OnlyRealTimestampsEnter ==
  /\ \A i \in 1..Len(data) : isValid(data[i].timestamp)
  /\ Len(data) > 0 => Len(data) <= Cardinality(C9_RealRows)

(***************************************************************************)
(* C10.  For every raw row with a valid timestamp, a non-numeric battery,  *)
(* moisture, EC or temperature field is normalized to 0 and the row is     *)
(* retained with its other fields unaffected: a numeric-field failure      *)
(* never drops the row.  A field is non-numeric when no number starts it   *)
(* (after blanks and a sign).                                              *)
(***************************************************************************)
NumericFields == {"battery", "moisture", "ec", "temperature"}

C10_NonNumeric(s) ==
  LET p == 1 + BlankRun(s, 1)
      q == IF CharAt(s, p) \in {"+", "-"} THEN p + 1 ELSE p
  IN  ~ \/ IsDigit(CharAt(s, q))
        \/ CharAt(s, q) = "." /\ IsDigit(CharAt(s, q + 1))

\* reading d is raw row r normalized: the texts with their defaults, the
\* timestamp, 0 for each non-numeric field, and every other field what it is
\* for the same row with the non-numeric fields written as 0
C10_Repaired(r) ==
  [f \in DOMAIN r |->
     IF f \in NumericFields /\ C10_NonNumeric(r[f]) THEN "0" ELSE r[f]]

C10_MadeFrom(d, r) ==
  /\ d.timestamp = newDate(r.timestamp, tz, FALSE)
  /\ d.serialNumber = (IF r.serial = "" THEN "N/A" ELSE r.serial)
  /\ d.location = (IF r.location = "" THEN "Unknown" ELSE r.location)
  /\ \A f \in NumericFields : C10_NonNumeric(r[f]) => d[f] = 0
  /\ \A f \in NumericFields :
       d[f] = toSensorData(C10_Repaired(r), tz, FALSE)[f]

C11_Filters == SUBSET {"A", "B", "Unknown", "Elsewhere"}

C11_NamesNoReading(sel) == sel # {} /\ sel \cap locations = {}

C12_CompletedWithRows ==
  /\ parsing' < parsing
  /\ alertShown' \notin {"noValidData", "parseError"}

\* C12: an upload without valid rows shows 'no valid data', clears the
\* uploading flag and leaves dataset, dates and selection as they were
C12_NoValidDataLeavesTheStateAlone ==
  [][ /\ alertShown' = "noValidData" =>
           /\ parsing' < parsing
           /\ isUploading' = FALSE
           /\ UNCHANGED <<data, startDate, endDate, selectedLocations>>
      /\ C12_CompletedWithRows =>
           /\ Len(data') > 0
           /\ \E rollover \in BOOLEAN :
                data' = ParsedFiles[parsedFrom', tz, rollover]
      /\ "noValidData" \notin {"processingError", "parseError"} ]_vars

\* the message is up over a dataset, a date range and a selection that an
\* earlier upload left
C12_Witness ==
  /\ alertShown = "noValidData"
  /\ ~isUploading
  /\ Len(data) > 0 /\ startDate # "" /\ endDate # "" /\ selectedLocations # {}

(***************************************************************************)
(* C13.  An upload is all-or-nothing: when the processing of a parsed file *)
(* ends in the catch block, the dataset, startDate, endDate and the        *)
(* selected locations all keep the values they had before the upload; the  *)
(* dataset is never replaced while the date range or the location          *)
(* selection still belong to the previous dataset.                         *)
(***************************************************************************)
\* C13: a step that ends in the catch block changes none of dataset, dates
\* and selection
C13_FailedUploadChangesNothing ==
  [][ alertShown' = "processingError" =>
        UNCHANGED <<data, startDate, endDate, selectedLocations>> ]_vars

(***************************************************************************)
(* C14.  In every state reachable by uploads (successful or failed),       *)
(* clearData, toggleLocation and toggleAllLocations, the selected          *)
(* locations are a subset of the distinct locations of the dataset.        *)
(***************************************************************************)
\* C14: every selected location is a location of the current dataset
C14_SelectionWithinLocations == selectedLocations \subseteq locations

====
